---- MODULE Spec2Model ----
(***************************************************************************)
(* PrefixTree (src/prefix_tree.py) and SegmentSurprisalTree                *)
(* (src/segment_surprisal_tree.py) as a state machine.                     *)
(*                                                                         *)
(* A tree is a function from node ids to node records.  A node id is the   *)
(* prefix the node stands for (a sequence of symbols, <<>> for the root).  *)
(* The nested 'children' dicts of the source are keyed by the child's id   *)
(* (vector[:i+1]), so the set of ids with the one-longer-prefix relation   *)
(* is the nesting: Children(t, id) is node['children'] of the source.      *)
(* Frequencies are naturals; a probability is the exact fraction           *)
(* num/den the float division is given; NoProb is a node without a 'prob'  *)
(* key.                                                                    *)
(***************************************************************************)
EXTENDS Integers, Sequences, FiniteSets, TLC

VARIABLES
    tree,            \* PrefixTree.tree: node id -> [labels, freq, prob]
    cache,           \* PrefixTree._cache: node id -> [n, entropy]
    ended,           \* history: inserted vector -> total weight inserted with it
    ncalls,          \* history: number of insert calls made on the tree
    pronunciations,  \* SegmentSurprisalTree.pronunciations: word -> pron
    loaded,          \* whether read_elp has run (self.tree exists)
    elp,             \* the rows of the csv file at paths.elp
    call,            \* the last call made: [op, ...arguments]
    ret              \* what it returned: [exc, val]

vars == <<tree, cache, ended, ncalls, pronunciations, loaded, elp, call, ret>>

----------------------------------------------------------------------------
(* Bounds of the model *)

Labels == {"cat"}
MaxLen == 2
MaxWeight == 1
MaxInserts == 2
MaxCached == 1

\* The vectors inserted and queried: a run of the first symbol, ended or not
\* by the second, so that vectors share prefixes, branch at every depth and
\* are proper prefixes of one another.
Run(x, n) == [i \in 1..n |-> x]
Vectors ==
    {Run("A", n) : n \in 0..MaxLen}
        \cup {Append(Run("A", n), "B") : n \in 0..(MaxLen - 1)}
Weights == 0..MaxWeight

----------------------------------------------------------------------------
(* Nodes *)

Root == <<>>
NoProb == [num |-> 0, den |-> 0]
NewNode == [labels |-> <<>>, freq |-> 0, prob |-> NoProb]
EmptyTree == (Root :> [labels |-> <<"root">>, freq |-> 0, prob |-> NoProb])
EmptyCache == [id \in {} |-> 0]

Prefix(vector, i) == SubSeq(vector, 1, i)
IsPrefixOf(p, vector) == Len(p) <= Len(vector) /\ Prefix(vector, Len(p)) = p
Children(t, id) == {c \in DOMAIN t : Len(c) = Len(id) + 1 /\ IsPrefixOf(id, c)}

RECURSIVE SumFreq(_, _)
SumFreq(t, S) ==
    IF S = {} THEN 0
    ELSE LET c == CHOOSE x \in S : TRUE IN t[c].freq + SumFreq(t, S \ {c})

Returned(v) == [exc |-> "None", val |-> v]
Raised(e) == [exc |-> e, val |-> <<>>]

----------------------------------------------------------------------------
(* PrefixTree.insert *)

\* A mutant of InsertPath: the weight reaches the root and the full-length
\* node only.
InsertPathEndsOnly(t, vector, freq) ==
    [id \in DOMAIN t \cup {Prefix(vector, i) : i \in 1..Len(vector)} |->
        LET old == IF id \in DOMAIN t THEN t[id] ELSE NewNode
        IN IF id = Root \/ id = vector
           THEN [old EXCEPT !.freq = @ + freq]
           ELSE old]

\* lines 60-67: the root and every node on the path get freq added, nodes
\* that are missing are created by setdefault.
InsertPath(t, vector, freq) ==
    [id \in DOMAIN t \cup {Prefix(vector, i) : i \in 1..Len(vector)} |->
        LET old == IF id \in DOMAIN t THEN t[id] ELSE NewNode
        IN IF IsPrefixOf(id, vector)
           THEN [old EXCEPT !.freq = @ + freq]
           ELSE old]

\* line 68: node is the last node of the loop; it is unbound when the loop
\* body never ran.
InsertRaises(vector) == Len(vector) = 0

InsertTree(t, vector, freq, label) ==
    LET t1 == InsertPath(t, vector, freq)
    IN IF InsertRaises(vector) THEN t1
       ELSE [t1 EXCEPT ![vector].labels = Append(@, label)]

InsertEnded(e, vector, freq) ==
    [v \in DOMAIN e \cup {vector} |->
        (IF v \in DOMAIN e THEN e[v] ELSE 0) + (IF v = vector THEN freq ELSE 0)]

Insert(vector, freq, label) ==
    /\ ncalls < MaxInserts
    /\ tree' = InsertTree(tree, vector, freq, label)
    /\ ended' = InsertEnded(ended, vector, freq)
    /\ ncalls' = ncalls + 1
    /\ call' = [op |-> "insert", vector |-> vector, freq |-> freq, label |-> label]
    /\ ret' = IF InsertRaises(vector) THEN Raised("UnboundLocalError")
              ELSE Returned(<<>>)
    /\ UNCHANGED <<cache, pronunciations, loaded, elp>>

----------------------------------------------------------------------------
(* PrefixTree.get_node, PrefixTree.get_prefixes *)

HasPath(t, vector) == \A i \in 1..Len(vector) : Prefix(vector, i) \in DOMAIN t

\* A mutant of GetNodeResult: the walk stops one prefix short.
GetNodeResultShort(t, vector) ==
    LET short == Prefix(vector, Len(vector) - 1)
    IN IF HasPath(t, short)
       THEN Returned([id |-> short, node |-> t[short]])
       ELSE Raised("KeyError")

GetNodeResult(t, vector) ==
    IF HasPath(t, vector)
    THEN Returned([id |-> vector, node |-> t[vector]])
    ELSE Raised("KeyError")

GetPrefixesResult(t, vector) ==
    IF HasPath(t, vector)
    THEN Returned([i \in 1..Len(vector) |->
                      [symbol |-> vector[i], id |-> Prefix(vector, i)]])
    ELSE Raised("KeyError")

GetNode(vector) ==
    /\ call' = [op |-> "get_node", vector |-> vector]
    /\ ret' = GetNodeResult(tree, vector)
    /\ UNCHANGED <<tree, cache, ended, ncalls, pronunciations, loaded, elp>>

GetPrefixes(vector) ==
    /\ call' = [op |-> "get_prefixes", vector |-> vector]
    /\ ret' = GetPrefixesResult(tree, vector)
    /\ UNCHANGED <<tree, cache, ended, ncalls, pronunciations, loaded, elp>>

----------------------------------------------------------------------------
(* PrefixTree.calculate_probs *)

\* The recursion visits node['children'].values() in the dict's order,
\* which the language leaves open: every order is an outcome.  An outcome
\* is <<tree, completed>>; the division raises ZeroDivisionError at the
\* first child of a node whose freq is 0, and what was set before stays.
RECURSIVE CalcNode(_, _), CalcChildren(_, _, _)
CalcChildren(t, id, rest) ==
    IF rest = {} THEN {<<t, TRUE>>}
    ELSE IF t[id].freq = 0 THEN {<<t, FALSE>>}
    ELSE UNION {
        LET t1 == [t EXCEPT ![c].prob = [num |-> t[c].freq, den |-> t[id].freq]]
        IN UNION { IF o[2] THEN CalcChildren(o[1], id, rest \ {c}) ELSE {o}
                   : o \in CalcNode(t1, c) }
        : c \in rest }

CalcNode(t, id) == CalcChildren(t, id, Children(t, id))

CalculateProbs ==
    /\ \E o \in CalcNode(tree, Root) :
        /\ tree' = o[1]
        /\ ret' = IF o[2] THEN Returned(<<>>) ELSE Raised("ZeroDivisionError")
    /\ call' = [op |-> "calculate_probs"]
    /\ UNCHANGED <<cache, ended, ncalls, pronunciations, loaded, elp>>

----------------------------------------------------------------------------
(* PrefixTree.get_continuations, _entropy, get_node_stats *)

\* A mutant of GetContinuations: the children themselves, not their
\* terminal descendants.
GetContinuationsDirect(t, id) ==
    IF Children(t, id) = {}
    THEN << [labels |-> t[id].labels, freq |-> t[id].freq] >>
    ELSE LET RECURSIVE list(_)
             list(S) ==
                IF S = {} THEN <<>>
                ELSE LET c == CHOOSE x \in S : TRUE
                     IN <<[labels |-> t[c].labels, freq |-> t[c].freq]>>
                            \o list(S \ {c})
         IN list(Children(t, id))

\* sum((get_continuations(x) for x in children.values()), []): the lists of
\* the children, concatenated in the dict's order (CHOOSE: one fixed order).
RECURSIVE GetContinuations(_, _), ConcatContinuations(_, _)
GetContinuations(t, id) ==
    IF Children(t, id) = {}
    THEN << [labels |-> t[id].labels, freq |-> t[id].freq] >>
    ELSE ConcatContinuations(t, Children(t, id))

ConcatContinuations(t, S) ==
    IF S = {} THEN <<>>
    ELSE LET c == CHOOSE x \in S : TRUE
         IN GetContinuations(t, c) \o ConcatContinuations(t, S \ {c})

ContFreqs(t, id) ==
    LET conts == GetContinuations(t, id)
    IN [i \in 1..Len(conts) |-> conts[i].freq]

RECURSIVE SumSeq(_)
SumSeq(v) == IF Len(v) = 0 THEN 0 ELSE Head(v) + SumSeq(Tail(v))

\* v + 1, then v / sum(v): the distribution, as exact fractions.  The
\* entropy -sum(p * log2(p)) is a function of this distribution and is
\* kept as the distribution it is taken of.
Entropy(v) ==
    LET smoothed == [i \in 1..Len(v) |-> v[i] + 1]
    IN [i \in 1..Len(v) |-> [num |-> smoothed[i], den |-> SumSeq(smoothed)]]

ComputeStats(t, id) ==
    [n |-> Len(ContFreqs(t, id)), entropy |-> Entropy(ContFreqs(t, id))]

\* A mutant of StatsCache: the statistics are computed on every call.
StatsCacheRecompute(c, t, id) ==
    [k \in DOMAIN c \cup {id} |-> IF k = id THEN ComputeStats(t, id) ELSE c[k]]

\* lines 158-162: the cache after get_node_stats(node)
StatsCache(c, t, id) ==
    IF id \notin DOMAIN c
    THEN [k \in DOMAIN c \cup {id} |-> IF k = id THEN ComputeStats(t, id) ELSE c[k]]
    ELSE c

GetNodeStats(id) ==
    /\ id \in DOMAIN cache \/ Cardinality(DOMAIN cache) < MaxCached
    /\ cache' = StatsCache(cache, tree, id)
    /\ call' = [op |-> "get_node_stats", id |-> id]
    /\ ret' = Returned(cache'[id])
    /\ UNCHANGED <<tree, ended, ncalls, pronunciations, loaded, elp>>

----------------------------------------------------------------------------
(* PrefixTree.prefix_surprisals, prefix_entropies, prefix_probabilities,   *)
(* prefix_frequencies                                                      *)

\* y['prob'] of a node calculate_probs has not reached is a KeyError.
ProbsSet(t, vector) ==
    \A i \in 1..Len(vector) : t[Prefix(vector, i)].prob # NoProb

\* -np.log2(p) is kept as the probability it is taken of.
PrefixSurprisals(t, vector) ==
    IF ~HasPath(t, vector) \/ ~ProbsSet(t, vector) THEN Raised("KeyError")
    ELSE Returned([i \in 1..Len(vector) |->
            [symbol |-> vector[i], neglog2 |-> t[Prefix(vector, i)].prob]])

PrefixProbabilities(t, vector) ==
    IF ~HasPath(t, vector) \/ ~ProbsSet(t, vector) THEN Raised("KeyError")
    ELSE Returned([i \in 1..Len(vector) |->
            [symbol |-> vector[i], prob |-> t[Prefix(vector, i)].prob]])

PrefixFrequencies(t, vector) ==
    IF ~HasPath(t, vector) THEN Raised("KeyError")
    ELSE Returned([i \in 1..Len(vector) |->
            [symbol |-> vector[i], freq |-> t[Prefix(vector, i)].freq]])

\* get_node_stats on every node of the path, in order
RECURSIVE PathCache(_, _, _, _)
PathCache(c, t, vector, i) ==
    IF i > Len(vector) THEN c
    ELSE PathCache(StatsCache(c, t, Prefix(vector, i)), t, vector, i + 1)

PrefixEntropiesCache(c, t, vector) ==
    IF HasPath(t, vector) THEN PathCache(c, t, vector, 1) ELSE c

PrefixEntropies(c, t, vector) ==
    IF ~HasPath(t, vector) THEN Raised("KeyError")
    ELSE Returned([i \in 1..Len(vector) |->
            [symbol |-> vector[i],
             entropy |-> PathCache(c, t, vector, 1)[Prefix(vector, i)].entropy]])

----------------------------------------------------------------------------
(* ELP2CMU.translate *)

\* A string is the sequence of its characters; the backquote and the double
\* quote are written "grave" and "quote".

Single ==
    [c \in {"S", "O", "U", "h", "V", "j", "o", "4", "T", "Z", "u", "E", "i",
            "D", "A", "I", "N", "a", "e", "@"} |->
        CASE c = "S" -> "SH" [] c = "O" -> "AO" [] c = "U" -> "UH"
          [] c = "h" -> "HH" [] c = "V" -> "AH" [] c = "j" -> "Y"
          [] c = "o" -> "OW" [] c = "4" -> "D"  [] c = "T" -> "TH"
          [] c = "Z" -> "ZH" [] c = "u" -> "UW" [] c = "E" -> "EH"
          [] c = "i" -> "IY" [] c = "D" -> "DH" [] c = "A" -> "AA"
          [] c = "I" -> "IH" [] c = "N" -> "NG" [] c = "a" -> "AE"
          [] c = "e" -> "EY" [] c = "@" -> "AH"]

Double ==
    [p \in {<<"h", "w">>, <<"O", "I">>, <<"a", "I">>, <<"d", "Z">>,
            <<"a", "U">>, <<"3", "grave">>, <<"t", "S">>, <<"@", "grave">>} |->
        CASE p = <<"h", "w">> -> "W"  [] p = <<"O", "I">> -> "OY"
          [] p = <<"a", "I">> -> "AY" [] p = <<"d", "Z">> -> "JH"
          [] p = <<"a", "U">> -> "AW" [] p = <<"3", "grave">> -> "ER"
          [] p = <<"t", "S">> -> "CH" [] p = <<"@", "grave">> -> "ER"]

\* str.upper() on the characters the modelled pronunciations hold
Upper(c) ==
    CASE c = "t" -> "T" [] c = "k" -> "K" [] c = "r" -> "R" [] OTHER -> c

RECURSIVE TranslateFrom(_, _, _)
TranslateFrom(s, i, res) ==
    IF i > Len(s) THEN res
    ELSE IF s[i] \in {".", "quote", "%"} THEN TranslateFrom(s, i + 1, res)
    ELSE IF Len(s) > i /\ <<s[i], s[i + 1]>> \in DOMAIN Double
        THEN TranslateFrom(s, i + 2, Append(res, Double[<<s[i], s[i + 1]>>]))
    ELSE IF Len(s) > i /\ s[i + 1] = "="
        THEN TranslateFrom(s, i + 2, res \o <<"AH", Upper(s[i])>>)
    ELSE IF s[i] \in DOMAIN Single
        THEN TranslateFrom(s, i + 1, Append(res, Single[s[i]]))
    ELSE IF s[i] = "r" /\ Len(res) > 0 /\ res[Len(res)] = "ER"
        THEN TranslateFrom(s, i + 1, res)
    ELSE TranslateFrom(s, i + 1, Append(res, Upper(s[i])))

Translate(s) == TranslateFrom(s, 1, <<>>)

----------------------------------------------------------------------------
(* The csv file at paths.elp *)

MaxRows == 2
LongLen == 10

\* The raw pronunciations of the file's rows: a short one, one of LongLen
\* segments that starts like it, and one with a two-character segment and a
\* syllable dot.
RawProns == {Run("t", 2), Run("t", LongLen), <<"t", "S", ".", "t">>}

\* The SUBTLWF field of a row: the two "no data" values and a count.
FreqFields == {"0", "NULL", "2"}

\* One row per word, in the file's alphabetical order.
WordList == <<"cat", "kit", "sun", "top">>
Rows(i) ==
    [Word : {WordList[i]}, Pron : RawProns, SUBTLWF : FreqFields]
Files ==
    UNION {{f \in [1..n -> UNION {Rows(i) : i \in 1..n}] :
                \A i \in 1..n : f[i] \in Rows(i)} : n \in 0..MaxRows}

\* The words asked about: the first two of the list, known or not according
\* to the number of rows of the file.
QueryWords == {WordList[1], WordList[2]}

----------------------------------------------------------------------------
(* SegmentSurprisalTree.read_elp *)

\* A mutant of IsSentinel: only NULL is taken for "no data".
IsSentinelNullOnly(field) == field = "NULL"

\* line 24
IsSentinel(field) == field \in {"0", "NULL"}

\* float() of the count fields of the modelled file
FloatOf(field) == CASE field = "0" -> 0 [] field = "2" -> 2

Terminated(pron) == pron \o <<"#">>

\* lines 22-28, rows i..: the tree and the insert history
RECURSIVE LoadTree(_, _, _), LoadEnded(_, _, _)
LoadTree(rows, i, t) ==
    IF i > Len(rows) THEN t
    ELSE IF IsSentinel(rows[i].SUBTLWF) THEN LoadTree(rows, i + 1, t)
    ELSE LoadTree(rows, i + 1,
            InsertTree(t, Terminated(Translate(rows[i].Pron)),
                       FloatOf(rows[i].SUBTLWF), rows[i].Word))

LoadEnded(rows, i, e) ==
    IF i > Len(rows) THEN e
    ELSE IF IsSentinel(rows[i].SUBTLWF) THEN LoadEnded(rows, i + 1, e)
    ELSE LoadEnded(rows, i + 1,
            InsertEnded(e, Terminated(Translate(rows[i].Pron)),
                        FloatOf(rows[i].SUBTLWF)))

\* line 28: the last row of a word sets its pronunciation
LoadPronunciations(rows) ==
    [w \in {rows[i].Word : i \in 1..Len(rows)} |->
        LET last == CHOOSE i \in 1..Len(rows) :
                        /\ rows[i].Word = w
                        /\ \A j \in (i + 1)..Len(rows) : rows[j].Word # w
        IN Translate(rows[last].Pron)]

ReadElp ==
    /\ \E o \in CalcNode(LoadTree(elp, 1, EmptyTree), Root) :
        /\ tree' = o[1]
        /\ ret' = IF o[2] THEN Returned(<<>>) ELSE Raised("ZeroDivisionError")
    /\ cache' = EmptyCache
    /\ ended' = LoadEnded(elp, 1, [v \in {} |-> 0])
    /\ ncalls' = Cardinality({i \in 1..Len(elp) : ~IsSentinel(elp[i].SUBTLWF)})
    /\ pronunciations' = LoadPronunciations(elp)
    /\ loaded' = TRUE
    /\ call' = [op |-> "read_elp"]
    /\ UNCHANGED elp

----------------------------------------------------------------------------
(* SegmentSurprisalTree.surprisals, entropies, probabilities, frequencies, *)
(* node_frequencies                                                        *)

\* A mutant of QueryVector: the marker alone depends on with_end.
QueryVectorMarkerOnly(pron, with_end) ==
    pron \o (IF with_end THEN <<"#">> ELSE <<>>)

\* tuple(pron + ['#'] if with_end else []): the conditional expression
\* binds weaker than +
QueryVector(pron, with_end) ==
    IF with_end THEN pron \o <<"#">> ELSE <<>>

\* self.pronunciations[word]: the attribute is set by read_elp
WordLookup(word) ==
    IF ~loaded THEN Raised("AttributeError")
    ELSE IF word \notin DOMAIN pronunciations THEN Raised("KeyError")
    ELSE Returned(pronunciations[word])

Surprisals(word, with_end) ==
    /\ call' = [op |-> "surprisals", word |-> word, with_end |-> with_end]
    /\ ret' = LET pron == WordLookup(word)
              IN IF pron.exc # "None" THEN pron
                 ELSE PrefixSurprisals(tree, QueryVector(pron.val, with_end))
    /\ UNCHANGED <<tree, cache, ended, ncalls, pronunciations, loaded, elp>>

Entropies(word, with_end) ==
    /\ call' = [op |-> "entropies", word |-> word, with_end |-> with_end]
    /\ ret' = LET pron == WordLookup(word)
              IN IF pron.exc # "None" THEN pron
                 ELSE PrefixEntropies(cache, tree, QueryVector(pron.val, with_end))
    /\ cache' = IF loaded /\ word \in DOMAIN pronunciations
                THEN PrefixEntropiesCache(cache, tree,
                        QueryVector(pronunciations[word], with_end))
                ELSE cache
    /\ UNCHANGED <<tree, ended, ncalls, pronunciations, loaded, elp>>

Probabilities(word, with_end) ==
    /\ call' = [op |-> "probabilities", word |-> word, with_end |-> with_end]
    /\ ret' = LET pron == WordLookup(word)
              IN IF pron.exc # "None" THEN pron
                 ELSE PrefixProbabilities(tree, QueryVector(pron.val, with_end))
    /\ UNCHANGED <<tree, cache, ended, ncalls, pronunciations, loaded, elp>>

Frequencies(word, with_end) ==
    /\ call' = [op |-> "frequencies", word |-> word, with_end |-> with_end]
    /\ ret' = LET pron == WordLookup(word)
              IN IF pron.exc # "None" THEN pron
                 ELSE PrefixFrequencies(tree, QueryVector(pron.val, with_end))
    /\ UNCHANGED <<tree, cache, ended, ncalls, pronunciations, loaded, elp>>

NodeFrequencies(word, with_end) ==
    /\ call' = [op |-> "node_frequencies", word |-> word, with_end |-> with_end]
    /\ ret' = LET pron == WordLookup(word)
              IN IF pron.exc # "None" THEN pron
                 ELSE PrefixFrequencies(tree, QueryVector(pron.val, with_end))
    /\ UNCHANGED <<tree, cache, ended, ncalls, pronunciations, loaded, elp>>

----------------------------------------------------------------------------
(* SegmentSurprisalTree.get_word_continuations, get_uniqueness_point *)

\* The characters of a symbol and of a count, as their ASCII codes: the
\* dict's keys are the strings '%s_%s' % (phoneme_count, phoneme_iter) and
\* list.sort() orders strings by code, character by character.
SymbolChars(symbol) ==
    CASE symbol = "T" -> <<84>>
      [] symbol = "CH" -> <<67, 72>>
      [] symbol = "SH" -> <<83, 72>>
      [] symbol = "#" -> <<35>>

RECURSIVE Digits(_)
Digits(n) ==
    IF n < 10 THEN <<48 + n>> ELSE Append(Digits(n \div 10), 48 + (n % 10))

FormatKey(count, symbol) == Digits(count) \o <<95>> \o SymbolChars(symbol)

RECURSIVE StrLess(_, _)
StrLess(a, b) ==
    IF Len(b) = 0 THEN FALSE
    ELSE IF Len(a) = 0 THEN TRUE
    ELSE IF Head(a) # Head(b) THEN Head(a) < Head(b)
    ELSE StrLess(Tail(a), Tail(b))

\* lines 66-82: the dict for a vector that has a path
ContinuationDict(t, vector) ==
    LET keys == {FormatKey(i - 1, vector[i]) : i \in 1..Len(vector)}
        at(k) == CHOOSE i \in 1..Len(vector) : FormatKey(i - 1, vector[i]) = k
    IN [k \in keys |-> ContFreqs(t, Prefix(vector, at(k)))]

\* the bare except of lines 60-63 turns every failure of the lookup,
\* the missing attribute included, into NotImplementedError
WordContinuations(word) ==
    IF ~loaded \/ word \notin DOMAIN pronunciations
    THEN Raised("NotImplementedError")
    ELSE IF ~HasPath(tree, Terminated(pronunciations[word]))
    THEN Raised("KeyError")
    ELSE Returned(ContinuationDict(tree, Terminated(pronunciations[word])))

\* lines 90-99: the index and key of the first key, in sorted order, with
\* one continuation
FirstUnique(dict) ==
    LET rank(k) == Cardinality({j \in DOMAIN dict : StrLess(j, k)})
        unique == {k \in DOMAIN dict : Len(dict[k]) = 1}
    IN IF unique = {} THEN Raised("ValueError")
       ELSE LET first == CHOOSE k \in unique :
                            \A j \in unique : rank(k) <= rank(j)
            IN Returned([n |-> rank(first), phoneme |-> first])

UniquenessPoint(word) ==
    LET continuation_dict == WordContinuations(word)
    IN IF continuation_dict.exc # "None" THEN continuation_dict
       ELSE FirstUnique(continuation_dict.val)

GetWordContinuations(word) ==
    /\ call' = [op |-> "get_word_continuations", word |-> word]
    /\ ret' = WordContinuations(word)
    /\ UNCHANGED <<tree, cache, ended, ncalls, pronunciations, loaded, elp>>

GetUniquenessPoint(word) ==
    /\ call' = [op |-> "get_uniqueness_point", word |-> word]
    /\ ret' = UniquenessPoint(word)
    /\ UNCHANGED <<tree, cache, ended, ncalls, pronunciations, loaded, elp>>

----------------------------------------------------------------------------
Init ==
    /\ tree = EmptyTree
    /\ cache = EmptyCache
    /\ ended = [v \in {} |-> 0]
    /\ ncalls = 0
    /\ pronunciations = [w \in {} |-> <<>>]
    /\ loaded = FALSE
    /\ elp = <<>>
    /\ call = [op |-> "init"]
    /\ ret = Returned(<<>>)

Next ==
    \/ \E vector \in Vectors, freq \in Weights, label \in Labels :
          Insert(vector, freq, label)
    \/ CalculateProbs
    \/ \E vector \in Vectors : GetNode(vector)
    \/ \E vector \in Vectors : GetPrefixes(vector)

Spec == Init /\ [][Next]_vars

\* The tree with its statistics cache: insertions, derivation passes and
\* get_node_stats calls in any order.
NextStats ==
    \/ \E vector \in Vectors, freq \in Weights, label \in Labels :
          Insert(vector, freq, label)
    \/ CalculateProbs
    \/ \E id \in DOMAIN tree : GetNodeStats(id)

SpecStats == Init /\ [][NextStats]_vars

\* The lexicon: a csv file, read_elp and the per-word queries.
InitLex ==
    /\ tree = EmptyTree
    /\ cache = EmptyCache
    /\ ended = [v \in {} |-> 0]
    /\ ncalls = 0
    /\ pronunciations = [w \in {} |-> <<>>]
    /\ loaded = FALSE
    /\ elp \in Files
    /\ call = [op |-> "init"]
    /\ ret = Returned(<<>>)

NextLex ==
    \/ ReadElp
    \/ \E word \in QueryWords, with_end \in BOOLEAN : Surprisals(word, with_end)
    \/ \E word \in QueryWords, with_end \in BOOLEAN : Entropies(word, with_end)
    \/ \E word \in QueryWords, with_end \in BOOLEAN : Probabilities(word, with_end)
    \/ \E word \in QueryWords, with_end \in BOOLEAN : Frequencies(word, with_end)
    \/ \E word \in QueryWords, with_end \in BOOLEAN : NodeFrequencies(word, with_end)

SpecLex == InitLex /\ [][NextLex]_vars

\* The lexicon and the uniqueness-point search.
NextUP ==
    \/ ReadElp
    \/ \E word \in QueryWords : GetWordContinuations(word)
    \/ \E word \in QueryWords : GetUniquenessPoint(word)

SpecUP == InitLex /\ [][NextUP]_vars

----------------------------------------------------------------------------
(* The claims *)

EndedAt(id) == IF id \in DOMAIN ended THEN ended[id] ELSE 0
HasChildren(id) == Children(tree, id) # {}
ChildrenFreq(id) == SumFreq(tree, Children(tree, id))

\* C1, as stated: after any insertions that completed (none with the empty
\* sequence, which C4 is about), every node with a child has the frequency
\* of its children together.
AggregationInvariant ==
    Root \notin DOMAIN ended =>
        \A id \in DOMAIN tree : HasChildren(id) => tree[id].freq = ChildrenFreq(id)

\* C1, amended: every node with a child has the frequency of its children
\* together plus the weight of the insertions whose sequence is the node's
\* own id; the two are equal at a node where no inserted sequence ends.
AggregationWithEnded ==
    \A id \in DOMAIN tree :
        HasChildren(id) => tree[id].freq = ChildrenFreq(id) + EndedAt(id)

\* A sequence was inserted with positive weight and so was a longer one
\* that starts with it.
AggregationWitness ==
    \E id \in DOMAIN tree : id # Root /\ HasChildren(id) /\ EndedAt(id) > 0

\* C4: every insert call completes, having added the weight to the root and
\* to every node on the path and appended the label to the full-length node.
InsertNeverFails ==
    [][ncalls' = ncalls + 1 =>
        LET vector == call'.vector
            before(id) == IF id \in DOMAIN tree THEN tree[id] ELSE NewNode
        IN /\ call'.op = "insert"
           /\ ret'.exc = "None"
           /\ \A i \in 0..Len(vector) :
                tree'[Prefix(vector, i)].freq
                    = before(Prefix(vector, i)).freq + call'.freq
           /\ tree'[vector].labels = Append(before(vector).labels, call'.label)
       ]_vars

Parent(id) == Prefix(id, Len(id) - 1)

RECURSIVE SumNum(_)
SumNum(S) ==
    IF S = {} THEN 0
    ELSE LET c == CHOOSE x \in S : TRUE IN tree[c].prob.num + SumNum(S \ {c})

\* C5: calculate_probs after insertions of non-negative weights (none of them
\* the failed insertion of the empty sequence) completes, every node but the
\* root has probability frequency / frequency of its parent, and the
\* probabilities of the children of a node sum to 1.
ProbabilityNormalization ==
    (call.op = "calculate_probs" /\ Root \notin DOMAIN ended) =>
        /\ ret.exc = "None"
        /\ \A id \in DOMAIN tree \ {Root} :
            tree[id].prob = [num |-> tree[id].freq, den |-> tree[Parent(id)].freq]
        /\ \A id \in DOMAIN tree :
            HasChildren(id) =>
                /\ tree[id].freq > 0
                /\ \A c \in Children(tree, id) : tree[c].prob.den = tree[id].freq
                /\ SumNum(Children(tree, id)) = tree[id].freq

Created(p) == \E v \in DOMAIN ended : IsPrefixOf(p, v)

\* C6: get_node and get_prefixes succeed exactly when every prefix of the
\* sequence was created by an earlier insertion, return the node of the
\* sequence and the (symbol, node) pairs by increasing length, fail with
\* KeyError otherwise, and leave the tree and the cache as they were.
LookupContract ==
    [][call'.op \in {"get_node", "get_prefixes"} =>
        LET vector == call'.vector
            found == \A i \in 1..Len(vector) : Created(Prefix(vector, i))
        IN /\ tree' = tree
           /\ cache' = cache
           /\ found => ret'.exc = "None"
           /\ ~found => ret' = Raised("KeyError")
           /\ (found /\ call'.op = "get_node") =>
                ret'.val = [id |-> vector, node |-> tree[vector]]
           /\ (found /\ call'.op = "get_prefixes") =>
                /\ Len(ret'.val) = Len(vector)
                /\ \A i \in 1..Len(vector) :
                    ret'.val[i] = [symbol |-> vector[i], id |-> Prefix(vector, i)]
       ]_vars

\* get_node found the node of a sequence of two symbols.
LookupWitness ==
    /\ call.op = "get_node"
    /\ ret.exc = "None"
    /\ Len(call.vector) >= 2

\* C7: an entry of the cache stays as it is, and get_node_stats returns the
\* entry of the node's id: what it computes when there was none, and what
\* the cache held before otherwise.
CacheNotInvalidated ==
    [][/\ \A id \in DOMAIN cache : id \in DOMAIN cache' /\ cache'[id] = cache[id]
       /\ call'.op = "get_node_stats" =>
            /\ ret'.exc = "None"
            /\ call'.id \in DOMAIN cache => ret'.val = cache[call'.id]
            /\ call'.id \notin DOMAIN cache => ret'.val = ComputeStats(tree, call'.id)
      ]_vars

\* get_node_stats returned a continuation count the tree no longer has.
StaleStatsReturned ==
    /\ call.op = "get_node_stats"
    /\ ret.val.n # Len(GetContinuations(tree, call.id))

InsertedRows == {i \in 1..Len(elp) : elp[i].SUBTLWF \notin {"0", "NULL"}}
RowVector(i) == Terminated(Translate(elp[i].Pron))

RECURSIVE RowsFreq(_, _), RowsLabels(_, _)
RowsFreq(id, i) ==
    IF i > Len(elp) THEN 0
    ELSE (IF i \in InsertedRows /\ IsPrefixOf(id, RowVector(i))
          THEN FloatOf(elp[i].SUBTLWF) ELSE 0) + RowsFreq(id, i + 1)

RowsLabels(id, i) ==
    IF i > Len(elp) THEN <<>>
    ELSE (IF i \in InsertedRows /\ RowVector(i) = id
          THEN <<elp[i].Word>> ELSE <<>>) \o RowsLabels(id, i + 1)

\* C8: after read_elp every row's word is in the pronunciations; the nodes
\* are the root and the prefixes of the terminated sequences of the rows
\* whose count is not 0 or NULL, a node's frequency is the counts of those
\* rows that start with it, and its labels are the words of those that end
\* at it.
SentinelExcluded ==
    loaded =>
        /\ \A i \in 1..Len(elp) : elp[i].Word \in DOMAIN pronunciations
        /\ DOMAIN tree = {Root} \cup
            UNION {{Prefix(RowVector(i), k) : k \in 1..Len(RowVector(i))}
                        : i \in InsertedRows}
        /\ \A id \in DOMAIN tree :
            /\ tree[id].freq = RowsFreq(id, 1)
            /\ id # Root => tree[id].labels = RowsLabels(id, 1)

\* A file with a row that has a count and a row that has none, whose
\* sequence is not in the tree, was read.
SentinelWitness ==
    /\ loaded
    /\ InsertedRows # {}
    /\ \E i \in 1..Len(elp) :
        /\ i \notin InsertedRows
        /\ RowVector(i) \notin DOMAIN tree
        /\ elp[i].Word \in DOMAIN pronunciations

ContinuationCount(id) == Len(GetContinuations(tree, id))

\* C9: a node has at least one continuation and no more than its parent;
\* in the dict of get_word_continuations a position after one with a single
\* continuation has a single one, and so has the last position.
ContinuationsNonIncreasing ==
    /\ \A id \in DOMAIN tree :
        /\ ContinuationCount(id) >= 1
        /\ \A c \in Children(tree, id) : ContinuationCount(c) <= ContinuationCount(id)
    /\ (call.op = "get_word_continuations" /\ ret.exc = "None") =>
        LET vector == Terminated(pronunciations[call.word])
            n(i) == Len(ret.val[FormatKey(i - 1, vector[i])])
        IN /\ \A i, j \in 1..Len(vector) : (i < j /\ n(i) = 1) => n(j) = 1
           /\ n(Len(vector)) = 1

\* get_word_continuations of a word whose first segment leaves two
\* continuations.
ContinuationsWitness ==
    /\ call.op = "get_word_continuations"
    /\ ret.exc = "None"
    /\ Len(ret.val[FormatKey(0, pronunciations[call.word][1])]) >= 2

PerWordQueries ==
    {"surprisals", "entropies", "probabilities", "frequencies", "node_frequencies"}

\* C10: a per-word query of a known word with with_end=False returns the
\* empty list; with with_end=True what it returns has one item per symbol
\* of the terminated sequence.
WithEndFalseEmpty ==
    (/\ call.op \in PerWordQueries
     /\ loaded
     /\ call.word \in DOMAIN pronunciations) =>
        /\ ~call.with_end => ret = Returned(<<>>)
        /\ (call.with_end /\ ret.exc = "None") =>
            Len(ret.val) = Len(pronunciations[call.word]) + 1

\* entropies(word, with_end=False) of a known word returned the empty list.
WithEndFalseWitness ==
    /\ call.op = "entropies"
    /\ loaded
    /\ call.word \in DOMAIN pronunciations
    /\ ~call.with_end
    /\ Len(pronunciations[call.word]) >= 2
    /\ ret.val = <<>>

\* C2: get_uniqueness_point returns the smallest position index with one
\* continuation and that position's key, and fails when there is none.
UniquenessPointNumericOrder ==
    (/\ call.op = "get_uniqueness_point"
     /\ loaded
     /\ call.word \in DOMAIN pronunciations
     /\ HasPath(tree, Terminated(pronunciations[call.word]))) =>
        LET vector == Terminated(pronunciations[call.word])
            single == {i \in 1..Len(vector) :
                          ContinuationCount(Prefix(vector, i)) = 1}
        IN IF single = {} THEN ret.exc = "ValueError"
           ELSE LET p == CHOOSE i \in single : \A j \in single : i <= j
                IN ret = Returned([n |-> p - 1,
                                   phoneme |-> FormatKey(p - 1, vector[p])])

\* C3: when get_uniqueness_point returns a position, one inserted entry
\* starts with the prefix that ends there.
UniquenessPointIsUnique ==
    (call.op = "get_uniqueness_point" /\ ret.exc = "None") =>
        LET vector == Terminated(pronunciations[call.word])
            p == CHOOSE i \in 1..Len(vector) :
                    FormatKey(i - 1, vector[i]) = ret.val.phoneme
        IN Cardinality({elp[i].Word : i \in
                {j \in InsertedRows : IsPrefixOf(Prefix(vector, p), RowVector(j))}})
            = 1
====
